---------------------------- MODULE Spec2Model ----------------------------
(***************************************************************************)
(* State machine of the chat component LlamaReasoningReactComponent        *)
(* (src/src/lib/main.tsx), of the Progress display it renders              *)
(* (src/src/lib/Progress.tsx) and of the worker it talks to.               *)
(*                                                                         *)
(* The component state is the set of React state cells (useState).  One    *)
(* action of the model is one event-loop task of the page: a DOM event     *)
(* handler or the worker "message" listener, followed by the re-render it  *)
(* causes and by the passive effect of that render (the "generate"         *)
(* trigger, useEffect([messages, isRunning])).  React flushes the effect   *)
(* of a render before it renders again, so handler + render + effect is    *)
(* one atomic step.                                                        *)
(*                                                                         *)
(* Optional values (null / undefined in the source) are Nothing or         *)
(* Just(v).                                                                *)
(***************************************************************************)
EXTENDS Integers, Sequences, FiniteSets, TLC

VARIABLES
    isWebGPUAvailable,  \* main.tsx:50
    status,             \* main.tsx:39   null | "loading" | "ready"
    error,              \* main.tsx:40   null | string
    loadingMessage,     \* main.tsx:41
    progressItems,      \* main.tsx:42   list of MessageData
    isRunning,          \* main.tsx:43
    input,              \* main.tsx:46
    messages,           \* main.tsx:47   list of ChatMessage
    tps,                \* main.tsx:48
    numTokens,          \* main.tsx:49
    sent,               \* commands posted to the worker, in order (postMessage)
    wpos,               \* worker: number of commands of `sent` it has taken
    wphase,             \* worker: "idle" | "loading" | "generating"
    wfiles,             \* worker: the files it is downloading
    life,               \* where the component is in its life, see MountEffect
    listening,          \* the "message" and "error" listeners are attached
    workers             \* the Worker objects created, each "open" or "terminated"

vars == <<isWebGPUAvailable, status, error, loadingMessage, progressItems,
          isRunning, input, messages, tps, numTokens, sent, wpos, wphase, wfiles,
          life, listening, workers>>

uiVars == <<isWebGPUAvailable, status, error, loadingMessage, progressItems,
            isRunning, input, messages, tps, numTokens>>

workerVars == <<wpos, wphase, wfiles>>

lifeVars == <<life, listening, workers>>

-----------------------------------------------------------------------------
(* Optional values *)

Nothing == <<>>

Just(v) == <<v>>

Val(o) == o[1]

-----------------------------------------------------------------------------
(* Bounds of the model *)

MaxTurns == 3       \* turns in the transcript

MaxContent == 8     \* characters in the content of one turn

MaxSent == 4        \* commands posted to the worker

MaxItems == 2       \* items in the progress list

MaxSize == 300      \* every byte count up to it is a total of a progress event

MaxChatTurns == 2   \* turns in the transcript when the worker keeps no order

-----------------------------------------------------------------------------
(* Data the environment (user, worker) supplies *)

EXAMPLES ==
    << "Solve the equation x^2 - 3x + 2 = 0",
       "Lily is three times older than her son. In 15 years, she will be twice as old as him. How old is she now?",
       "Write python code to compute the nth fibonacci number." >>

\* what the user can type into the textarea
Inputs == {"", "hello"}

\* output fragments of update events
Outputs == {"", "Hi", " there"}

\* generation phase labels of update events
States == {Just("thinking"), Just("answering")}

\* (tps, numTokens) pairs of update events
Metrics == { <<Just(5), Just(7)>>, <<Nothing, Nothing>> }

Files == {"model.onnx", "tokenizer.json"}

\* data of loading / error events: a string, or not a string
DataValues == {Nothing, Just(""), Just("msg")}

\* (progress, total) pairs of progress events
ProgressValues == { <<Just(50), Just(1536)>>, <<Just(100), Nothing>> }

\* byte counts above MaxSize that are totals of progress events: around the
\* changes of unit, and with fractions to round (up, down, from the middle)
LargeSizes ==
    { 1023, 1024, 1025, 1029, 1030, 1152, 1536, 2047, 2048, 10240, 102400,
      1048063, 1048575, 1048576, 1048577, 1572864, 5452595, 1073741823 }

Sizes == (0 .. MaxSize) \cup LargeSizes

-----------------------------------------------------------------------------
(* Worker events (MessageData, main.tsx:6-16): every field is optional *)

Ev(st) ==
    [status |-> Just(st), data |-> Nothing, file |-> Nothing,
     output |-> Nothing, tps |-> Nothing, numTokens |-> Nothing,
     state |-> Nothing, progress |-> Nothing, total |-> Nothing]

LoadingEvents == { [Ev("loading") EXCEPT !.data = d] : d \in DataValues }

InitiateEvents == { [Ev("initiate") EXCEPT !.file = Just(f)] : f \in Files }

ProgressEvents ==
    { [Ev("progress") EXCEPT !.file = Just(f), !.progress = pt[1], !.total = pt[2]] :
        f \in Files, pt \in ProgressValues }

\* progress events whose total runs over Sizes, or is absent
SizedProgressEvents ==
    { [Ev("progress") EXCEPT !.file = Just("model.onnx"), !.progress = Just(50),
                             !.total = t] :
        t \in {Nothing} \cup { Just(n) : n \in Sizes } }

DoneEvents == { [Ev("done") EXCEPT !.file = Just(f)] : f \in Files }

ReadyEvents == { Ev("ready") }

StartEvents == { Ev("start") }

UpdateEvents ==
    { [Ev("update") EXCEPT !.output = Just(o), !.state = s,
                           !.tps = m[1], !.numTokens = m[2]] :
        o \in Outputs, s \in States, m \in Metrics }

CompleteEvents == { Ev("complete") }

ErrorEvents == { [Ev("error") EXCEPT !.data = d] : d \in DataValues }

\* the values of status the switch has a case for
KnownStatuses ==
    { "loading", "initiate", "progress", "done", "ready", "start", "update",
      "complete", "error" }

\* events the switch has no case for: the status is absent, or another
\* string; their other fields are filled
OtherEvents ==
    { [status |-> st, data |-> Just("msg"), file |-> Just("model.onnx"),
       output |-> Just("Hi"), tps |-> Just(5), numTokens |-> Just(7),
       state |-> Just("answering"), progress |-> Just(50),
       total |-> Just(1536)] :
        st \in {Nothing, Just(""), Just("download")} }

\* Commands posted to the worker (worker.current.postMessage)
Cmd(type) == [type |-> type, data |-> <<>>]

\* GenerateCmd that carries the last turn alone
GenerateCmdLastTurnOnly(msgs) == [type |-> "generate", data |-> << msgs[Len(msgs)] >>]

GenerateCmd(msgs) == [type |-> "generate", data |-> msgs]

-----------------------------------------------------------------------------
(* Transcript helpers *)

UserTurn(text) == [role |-> "user", content |-> text, answerIndex |-> Nothing]

AssistantTurn == [role |-> "assistant", content |-> "", answerIndex |-> Nothing]

Last(s) == s[Len(s)]

\* messages.filter((x) => x.role === "user").length
UserCount(msgs) == Cardinality({ i \in DOMAIN msgs : msgs[i].role = "user" })

\* a command is posted; the model stops posting at MaxSent commands
Post(cmd) == Len(sent) < MaxSent /\ sent' = Append(sent, cmd)

\* GenerateDue without the test of the last turn's role
GenerateDueAnyRole(msgs) == UserCount(msgs) # 0

\* the guards of the generate trigger: some user turn exists and the last
\* turn is not an assistant turn
GenerateDue(msgs) ==
    /\ UserCount(msgs) # 0
    /\ ~(msgs # <<>> /\ Last(msgs).role = "assistant")

\* useEffect([messages, isRunning]): runs after a render in which messages
\* or isRunning changed; msgs is the transcript of that render and t the
\* value the handler left in tps.  It sets tps and sent.
GenerateEffect(msgs, t) ==
    IF GenerateDue(msgs)
    THEN tps' = Nothing /\ Post(GenerateCmd(msgs))
    ELSE tps' = t /\ sent' = sent

-----------------------------------------------------------------------------
(* Initial state: the component has rendered for the first time and the   *)
(* feature detection (main.tsx:52-54) has run; the effect that creates    *)
(* the worker (main.tsx:82-197) has not run yet.                          *)

Init ==
    /\ isWebGPUAvailable \in BOOLEAN
    /\ status = Nothing
    /\ error = Nothing
    /\ loadingMessage = ""
    /\ progressItems = <<>>
    /\ isRunning = FALSE
    /\ input = ""
    /\ messages = <<>>
    /\ tps = Nothing
    /\ numTokens = Nothing
    /\ sent = <<>>
    /\ wpos = 0
    /\ wphase = "idle"
    /\ wfiles = {}
    /\ life = "mounting"
    /\ listening = FALSE
    /\ workers = <<>>

-----------------------------------------------------------------------------
(* The effect of main.tsx:82-197 and its cleanup.  life is "mounting"      *)
(* before the effect has run, "mounted" after it, "unmounted" after the    *)
(* page has removed the component.  In React's StrictMode (development)    *)
(* the effect runs, is cleaned up and runs again, all within the commit:   *)
(* "strict" after the first run, "remounting" after the cleanup.  Nothing  *)
(* else happens before life is "mounted".                                  *)

\* MountEffect without the test of worker.current
MountEffectAlwaysCreating ==
    /\ life \in {"mounting", "remounting"}
    /\ workers' = Append(workers, "open")
    /\ sent' = Append(sent, Cmd("check"))
    /\ listening' = TRUE
    /\ life' \in IF life = "mounting" THEN {"mounted", "strict"} ELSE {"mounted"}
    /\ UNCHANGED <<uiVars, workerVars>>

\* the body of the effect (main.tsx:83-188): the worker is created and
\* asked to check unless worker.current holds one; the listeners are attached
MountEffect ==
    /\ life \in {"mounting", "remounting"}
    /\ IF workers = <<>>
       THEN /\ workers' = Append(workers, "open")
            /\ sent' = Append(sent, Cmd("check"))
       ELSE UNCHANGED <<workers, sent>>
    /\ listening' = TRUE
    /\ life' \in IF life = "mounting" THEN {"mounted", "strict"} ELSE {"mounted"}
    /\ UNCHANGED <<uiVars, workerVars>>

\* the cleanup function (main.tsx:191-196): the listeners are removed; the
\* worker is not terminated and worker.current keeps it
Cleanup ==
    /\ listening' = IF workers # <<>> THEN FALSE ELSE listening
    /\ UNCHANGED workers

\* StrictMode's cleanup between the two runs of the effect
StrictCleanup ==
    /\ life = "strict"
    /\ Cleanup
    /\ life' = "remounting"
    /\ UNCHANGED <<uiVars, sent, workerVars>>

\* the page removes the component
Unmount ==
    /\ life = "mounted"
    /\ Cleanup
    /\ life' = "unmounted"
    /\ UNCHANGED <<uiVars, sent, workerVars>>

-----------------------------------------------------------------------------
(* onMessageReceived (main.tsx:96-179), one operator per case of the       *)
(* switch.  Each takes the event e = e.data.                               *)

\* case "loading"
OnLoading(e) ==
    /\ e.status = Just("loading")
    /\ status' = Just("loading")
    /\ loadingMessage' = IF e.data # Nothing THEN Val(e.data) ELSE loadingMessage
    /\ UNCHANGED <<isWebGPUAvailable, error, progressItems, isRunning, input,
                   messages, tps, numTokens, sent>>

\* case "initiate": the event itself becomes the new item
OnInitiate(e) ==
    /\ e.status = Just("initiate")
    /\ Len(progressItems) < MaxItems
    /\ progressItems' = Append(progressItems, e)
    /\ UNCHANGED <<isWebGPUAvailable, status, error, loadingMessage, isRunning,
                   input, messages, tps, numTokens, sent>>

\* UpdateProgress that inserts an item when none matches
UpdateProgressOrInsert(prev, e) ==
    IF \A i \in DOMAIN prev : prev[i].file # e.file
    THEN Append(prev, e)
    ELSE [ i \in DOMAIN prev |->
            IF prev[i].file = e.file
            THEN [prev[i] EXCEPT !.progress = e.progress, !.total = e.total]
            ELSE prev[i] ]

\* prev.map(...) of case "progress"
UpdateProgress(prev, e) ==
    [ i \in DOMAIN prev |->
        IF prev[i].file = e.file
        THEN [prev[i] EXCEPT !.progress = e.progress, !.total = e.total]
        ELSE prev[i] ]

\* case "progress"
OnProgress(e) ==
    /\ e.status = Just("progress")
    /\ progressItems' = UpdateProgress(progressItems, e)
    /\ UNCHANGED <<isWebGPUAvailable, status, error, loadingMessage, isRunning,
                   input, messages, tps, numTokens, sent>>

\* RemoveFile that removes by position, the first item
RemoveFirstItem(prev, file) == IF prev = <<>> THEN <<>> ELSE Tail(prev)

\* prev.filter((item) => item.file !== file)
RECURSIVE RemoveFile(_, _)
RemoveFile(prev, file) ==
    IF prev = <<>> THEN <<>>
    ELSE IF Head(prev).file # file
         THEN <<Head(prev)>> \o RemoveFile(Tail(prev), file)
         ELSE RemoveFile(Tail(prev), file)

\* case "done"
OnDone(e) ==
    /\ e.status = Just("done")
    /\ progressItems' = RemoveFile(progressItems, e.file)
    /\ UNCHANGED <<isWebGPUAvailable, status, error, loadingMessage, isRunning,
                   input, messages, tps, numTokens, sent>>

\* case "ready"
OnReady(e) ==
    /\ e.status = Just("ready")
    /\ status' = Just("ready")
    /\ UNCHANGED <<isWebGPUAvailable, error, loadingMessage, progressItems,
                   isRunning, input, messages, tps, numTokens, sent>>

\* case "start": a new array, so the generate trigger runs; its last turn
\* is an assistant turn
OnStart(e) ==
    /\ e.status = Just("start")
    /\ Len(messages) < MaxTurns
    /\ messages' = Append(messages, AssistantTurn)
    /\ GenerateEffect(messages', tps)
    /\ UNCHANGED <<isWebGPUAvailable, status, error, loadingMessage,
                   progressItems, isRunning, input, numTokens>>

\* output ?? ""
OutputOf(e) == IF e.output # Nothing THEN Val(e.output) ELSE ""

\* ApplyUpdate that puts the new output before the content
ApplyUpdatePrepending(prev, e) ==
    IF prev = <<>> THEN prev
    ELSE LET last == Last(prev)
             updated == [last EXCEPT !.content = OutputOf(e) \o last.content]
         IN  [prev EXCEPT ![Len(prev)] =
                IF updated.answerIndex = Nothing /\ e.state = Just("answering")
                THEN [updated EXCEPT !.answerIndex = Just(Len(last.content))]
                ELSE updated]

\* ApplyUpdate without the test that answerIndex is still undefined
ApplyUpdateOverwriting(prev, e) ==
    IF prev = <<>> THEN prev
    ELSE LET last == Last(prev)
             updated == [last EXCEPT !.content = last.content \o OutputOf(e)]
         IN  [prev EXCEPT ![Len(prev)] =
                IF e.state = Just("answering")
                THEN [updated EXCEPT !.answerIndex = Just(Len(last.content))]
                ELSE updated]

\* ApplyUpdate that makes a turn of the output when there is none
ApplyUpdateCreatingTurn(prev, e) ==
    IF prev = <<>>
    THEN << [role |-> "assistant", content |-> OutputOf(e),
             answerIndex |-> Nothing] >>
    ELSE LET last == Last(prev)
             updated == [last EXCEPT !.content = last.content \o OutputOf(e)]
         IN  [prev EXCEPT ![Len(prev)] =
                IF updated.answerIndex = Nothing /\ e.state = Just("answering")
                THEN [updated EXCEPT !.answerIndex = Just(Len(last.content))]
                ELSE updated]

\* ApplyUpdate that appends the output to the first turn
ApplyUpdateFirstTurn(prev, e) ==
    IF prev = <<>> THEN prev
    ELSE [prev EXCEPT ![1] = [@ EXCEPT !.content = @ \o OutputOf(e)]]

\* the updater of setMessages in case "update"
ApplyUpdate(prev, e) ==
    IF prev = <<>> THEN prev
    ELSE LET last == Last(prev)
             updated == [last EXCEPT !.content = last.content \o OutputOf(e)]
         IN  [prev EXCEPT ![Len(prev)] =
                IF updated.answerIndex = Nothing /\ e.state = Just("answering")
                THEN [updated EXCEPT !.answerIndex = Just(Len(last.content))]
                ELSE updated]

\* OnUpdate that drops an update whose output is empty
OnUpdateIgnoringEmpty(e) ==
    /\ e.status = Just("update")
    /\ messages # <<>> =>
         Len(Last(messages).content) + Len(OutputOf(e)) <= MaxContent
    /\ IF OutputOf(e) = ""
       THEN UNCHANGED <<numTokens, messages, tps, sent>>
       ELSE /\ numTokens' = e.numTokens
            /\ messages' = ApplyUpdate(messages, e)
            /\ GenerateEffect(messages', e.tps)
    /\ UNCHANGED <<isWebGPUAvailable, status, error, loadingMessage,
                   progressItems, isRunning, input>>

\* case "update": setTps, setNumTokens, setMessages (always a new array),
\* then the generate trigger
OnUpdate(e) ==
    /\ e.status = Just("update")
    /\ messages # <<>> =>
         Len(Last(messages).content) + Len(OutputOf(e)) <= MaxContent
    /\ numTokens' = e.numTokens
    /\ messages' = ApplyUpdate(messages, e)
    /\ GenerateEffect(messages', e.tps)
    /\ UNCHANGED <<isWebGPUAvailable, status, error, loadingMessage,
                   progressItems, isRunning, input>>

\* case "complete": the generate trigger runs only if isRunning changed
OnComplete(e) ==
    /\ e.status = Just("complete")
    /\ isRunning' = FALSE
    /\ IF isRunning
       THEN GenerateEffect(messages, tps)
       ELSE UNCHANGED <<tps, sent>>
    /\ UNCHANGED <<isWebGPUAvailable, status, error, loadingMessage,
                   progressItems, input, messages, numTokens>>

\* case "error"
OnError(e) ==
    /\ e.status = Just("error")
    /\ error' = IF e.data # Nothing THEN e.data ELSE error
    /\ UNCHANGED <<isWebGPUAvailable, status, loadingMessage, progressItems,
                   isRunning, input, messages, tps, numTokens, sent>>

\* OnOther that takes the event for an error
OnOtherAsError(e) ==
    /\ \A st \in KnownStatuses : e.status # Just(st)
    /\ error' = IF e.data # Nothing THEN e.data ELSE error
    /\ UNCHANGED <<isWebGPUAvailable, status, loadingMessage, progressItems,
                   isRunning, input, messages, tps, numTokens, sent>>

\* no case of the switch matches (it has no default): no state is set, so
\* nothing is rendered and no effect runs
OnOther(e) ==
    /\ \A st \in KnownStatuses : e.status # Just(st)
    /\ UNCHANGED <<isWebGPUAvailable, status, error, loadingMessage,
                   progressItems, isRunning, input, messages, tps, numTokens,
                   sent>>

\* the listener applied to one event; the worker's own state is not touched
OnMessageReceived(e) ==
    \/ OnLoading(e)
    \/ OnInitiate(e)
    \/ OnProgress(e)
    \/ OnDone(e)
    \/ OnReady(e)
    \/ OnStart(e)
    \/ OnUpdate(e)
    \/ OnComplete(e)
    \/ OnError(e)
    \/ OnOther(e)

-----------------------------------------------------------------------------
(* User actions.  Each is guarded by the conditions under which the JSX    *)
(* renders its element (and leaves it enabled).  None touches the worker's *)
(* own state.                                                              *)

\* onEnter (main.tsx:55-62) and the generate trigger of the render it causes
onEnter(message) ==
    /\ Len(messages) < MaxTurns
    /\ messages' = Append(messages, UserTurn(message))
    /\ isRunning' = TRUE
    /\ input' = ""
    /\ GenerateEffect(messages', Nothing)
    /\ UNCHANGED <<isWebGPUAvailable, status, error, loadingMessage,
                   progressItems, numTokens>>

\* ClickLoad with the button disabled by the status alone
ClickLoadDespiteError ==
    /\ life = "mounted" /\ UNCHANGED lifeVars
    /\ isWebGPUAvailable
    /\ status = Nothing /\ messages = <<>>
    /\ Post(Cmd("load"))
    /\ status' = Just("loading")
    /\ UNCHANGED <<isWebGPUAvailable, error, loadingMessage, progressItems,
                   isRunning, input, messages, tps, numTokens>>
    /\ UNCHANGED workerVars

\* ClickLoad without setStatus("loading")
ClickLoadKeepingStatus ==
    /\ life = "mounted" /\ UNCHANGED lifeVars
    /\ isWebGPUAvailable
    /\ status = Nothing /\ messages = <<>>
    /\ ~(status # Nothing \/ error # Nothing)
    /\ Post(Cmd("load"))
    /\ UNCHANGED <<isWebGPUAvailable, status, error, loadingMessage,
                   progressItems, isRunning, input, messages, tps, numTokens>>
    /\ UNCHANGED workerVars

\* the "Load model" button (main.tsx:226, 280-291)
ClickLoad ==
    /\ life = "mounted" /\ UNCHANGED lifeVars
    /\ isWebGPUAvailable
    /\ status = Nothing /\ messages = <<>>
    /\ ~(status # Nothing \/ error # Nothing)
    /\ Post(Cmd("load"))
    /\ status' = Just("loading")
    /\ UNCHANGED <<isWebGPUAvailable, error, loadingMessage, progressItems,
                   isRunning, input, messages, tps, numTokens>>
    /\ UNCHANGED workerVars

\* TypeInput with the textarea enabled in every phase
TypeInputWhileDisabled(text) ==
    /\ life = "mounted" /\ UNCHANGED lifeVars
    /\ isWebGPUAvailable
    /\ input' = text
    /\ UNCHANGED <<isWebGPUAvailable, status, error, loadingMessage,
                   progressItems, isRunning, messages, tps, numTokens, sent>>
    /\ UNCHANGED workerVars

\* onInput of the textarea (main.tsx:377, 390), disabled unless ready
TypeInput(text) ==
    /\ life = "mounted" /\ UNCHANGED lifeVars
    /\ isWebGPUAvailable
    /\ ~(status # Just("ready"))
    /\ input' = text
    /\ UNCHANGED <<isWebGPUAvailable, status, error, loadingMessage,
                   progressItems, isRunning, messages, tps, numTokens, sent>>
    /\ UNCHANGED workerVars

\* onKeyDown of the textarea with Enter, no Shift (main.tsx:377-389)
PressEnter ==
    /\ life = "mounted" /\ UNCHANGED lifeVars
    /\ isWebGPUAvailable
    /\ ~(status # Just("ready"))
    /\ Len(input) > 0 /\ ~isRunning
    /\ onEnter(input)
    /\ UNCHANGED workerVars

\* ClickSend with the arrow rendered whatever isRunning is
ClickSendWhileRunning ==
    /\ life = "mounted" /\ UNCHANGED lifeVars
    /\ isWebGPUAvailable
    /\ Len(input) > 0
    /\ onEnter(input)
    /\ UNCHANGED workerVars

\* the send arrow (main.tsx:392-401)
ClickSend ==
    /\ life = "mounted" /\ UNCHANGED lifeVars
    /\ isWebGPUAvailable
    /\ ~isRunning /\ Len(input) > 0
    /\ onEnter(input)
    /\ UNCHANGED workerVars

\* an example prompt (main.tsx:311, 317-327)
ClickExample(i) ==
    /\ life = "mounted" /\ UNCHANGED lifeVars
    /\ isWebGPUAvailable
    /\ status = Just("ready") /\ messages = <<>>
    /\ onEnter(EXAMPLES[i])
    /\ UNCHANGED workerVars

\* ClickStop that also ends the cycle in the UI
ClickStopClearingRunning ==
    /\ life = "mounted" /\ UNCHANGED lifeVars
    /\ isWebGPUAvailable
    /\ isRunning
    /\ Post(Cmd("interrupt"))
    /\ isRunning' = FALSE
    /\ UNCHANGED <<isWebGPUAvailable, status, error, loadingMessage,
                   progressItems, input, messages, tps, numTokens>>
    /\ UNCHANGED workerVars

\* onInterrupt (main.tsx:64-68) through the stop icon (main.tsx:392-395)
ClickStop ==
    /\ life = "mounted" /\ UNCHANGED lifeVars
    /\ isWebGPUAvailable
    /\ isRunning
    /\ Post(Cmd("interrupt"))
    /\ UNCHANGED uiVars
    /\ UNCHANGED workerVars

\* tps && ... : null, undefined and 0 are falsy
Truthy(n) == n # Nothing /\ Val(n) # 0

\* the "Reset" link (main.tsx:311, 331-361); setMessages([]) is a new array,
\* the generate trigger runs and finds no user turn
ClickReset ==
    /\ life = "mounted" /\ UNCHANGED lifeVars
    /\ isWebGPUAvailable
    /\ status = Just("ready")
    /\ Truthy(tps) /\ Len(messages) > 0 /\ ~isRunning
    /\ Post(Cmd("reset"))
    /\ messages' = <<>>
    /\ UNCHANGED <<isWebGPUAvailable, status, error, loadingMessage,
                   progressItems, isRunning, input, tps, numTokens>>
    /\ UNCHANGED workerVars

\* the error display (main.tsx:224-226, 271-278): it is part of the initial
\* panel, and {error && ...} shows nothing for null and for ""
ErrorShown ==
    /\ isWebGPUAvailable
    /\ status = Nothing /\ messages = <<>>
    /\ error # Nothing /\ Val(error) # ""

UserAction ==
    \/ ClickLoad
    \/ \E text \in Inputs : TypeInput(text)
    \/ PressEnter
    \/ ClickSend
    \/ \E i \in DOMAIN EXAMPLES : ClickExample(i)
    \/ ClickStop
    \/ ClickReset

-----------------------------------------------------------------------------
(* Progress.tsx.  A JavaScript number with at most two decimals is held as *)
(* its count of hundredths; the strings are the strings of the source.     *)

RECURSIVE Pow(_, _)
\* Math.pow(base, n)
Pow(base, n) == IF n = 0 THEN 1 ELSE base * Pow(base, n - 1)

RECURSIVE FloorLog(_, _)
\* Math.floor(Math.log(size) / Math.log(base)), size >= 1
FloorLog(size, base) ==
    IF size < base THEN 0 ELSE 1 + FloorLog(size \div base, base)

\* two digits
Pad2(k) == IF k < 10 THEN "0" \o ToString(k) ELSE ToString(k)

\* ToFixed2 that cuts the value after two decimals
ToFixed2Truncating(num, den) ==
    LET q == num \div den
        r == num % den
        h == 100 * q + (100 * r) \div den
    IN  ToString(h \div 100) \o "." \o Pad2(h % 100)

\* (num / den).toFixed(2): the nearest count of hundredths, the larger one
\* of two equally near
ToFixed2(num, den) ==
    LET q == num \div den
        r == num % den
        h == 100 * q + (200 * r + den) \div (2 * den)
    IN  ToString(h \div 100) \o "." \o Pad2(h % 100)

\* the value of a decimal digit
DigitValue(c) == CHOOSE d \in 0 .. 9 : ToString(d) = c

RECURSIVE ParseNat(_)
\* the number a string of digits denotes
ParseNat(str) ==
    IF Len(str) = 0 THEN 0
    ELSE 10 * ParseNat(SubSeq(str, 1, Len(str) - 1))
           + DigitValue(SubSeq(str, Len(str), Len(str)))

\* unary + on a string "d..d.dd": the number, in hundredths
ParseNumber(str) ==
    LET dot == CHOOSE k \in 1 .. Len(str) : SubSeq(str, k, k) = "."
    IN  100 * ParseNat(SubSeq(str, 1, dot - 1))
          + ParseNat(SubSeq(str, dot + 1, Len(str)))

\* a number (in hundredths) concatenated to a string: no trailing zeros
NumberToString(h) ==
    IF h % 100 = 0 THEN ToString(h \div 100)
    ELSE IF h % 10 = 0
         THEN ToString(h \div 100) \o "." \o ToString((h % 100) \div 10)
         ELSE ToString(h \div 100) \o "." \o Pad2(h % 100)

Units == << "B", "kB", "MB", "GB", "TB" >>

\* formatBytes (Progress.tsx:1-8)
formatBytes(size) ==
    LET i == IF size = 0 THEN 0 ELSE FloorLog(size, 1024)
    IN  NumberToString(ParseNumber(ToFixed2(size, Pow(1024, i)))) \o
          (IF i + 1 \in DOMAIN Units THEN Units[i + 1] ELSE "undefined")

\* Progress (Progress.tsx:16-33): the text of the bar; total is not a
\* number when it is absent
Progress(text, percentage, total) ==
    text \o " (" \o ToFixed2(percentage, 1) \o "%" \o
      (IF total = Nothing THEN "" ELSE " of " \o formatBytes(Val(total))) \o ")"

\* the bars of the loading view (main.tsx:295-309)
ProgressBars ==
    [ i \in DOMAIN progressItems |->
        LET item == progressItems[i]
        IN  Progress(IF item.file # Nothing THEN Val(item.file) ELSE "",
                     IF item.progress # Nothing THEN Val(item.progress) ELSE 0,
                     item.total) ]

-----------------------------------------------------------------------------
(* Chat.tsx, AssistantMessage: the two texts an assistant turn is shown as *)

\* str.slice(from, to) with 0 <= from and to <= str.length
Slice(str, from, to) == IF from >= to THEN "" ELSE SubSeq(str, from + 1, to)

\* answerIndex ? content.slice(0, answerIndex) : content
thinking(turn) ==
    IF Truthy(turn.answerIndex)
    THEN Slice(turn.content, 0, Val(turn.answerIndex))
    ELSE turn.content

\* answerIndex ? content.slice(answerIndex) : ""
answer(turn) ==
    IF Truthy(turn.answerIndex)
    THEN Slice(turn.content, Val(turn.answerIndex), Len(turn.content))
    ELSE ""

-----------------------------------------------------------------------------
(* The worker (./worker.js, main.tsx:85-91), from its message contract:    *)
(* it takes the commands in the order they were posted; it answers check   *)
(* with nothing or with an error; load with loading (and a message for the *)
(* user, a string that is not empty), the events of the downloads          *)
(* (initiate, progress*, done for each file) and ready, or with an error;  *)
(* generate with start, update*, complete.  interrupt is                   *)
(* cooperative: the worker takes it and still ends the turn with complete. *)
(* An event the worker emits is handled by the listener in the same step:  *)
(* the commands in flight are `sent` from wpos on, and what the user does  *)
(* between an event's emission and its handling could as well be done      *)
(* before the emission.                                                    *)

NextCommand == IF wpos < Len(sent) THEN sent[wpos + 1].type ELSE "none"

Take == wpos' = wpos + 1

Silent == UNCHANGED <<uiVars, sent>>

WorkerCheck ==
    /\ life = "mounted" /\ UNCHANGED lifeVars
    /\ wphase = "idle" /\ NextCommand = "check"
    /\ Take /\ UNCHANGED <<wphase, wfiles>>
    /\ \/ Silent
       \/ \E e \in ErrorEvents : OnMessageReceived(e)

WorkerLoad ==
    /\ life = "mounted" /\ UNCHANGED lifeVars
    /\ wphase = "idle" /\ NextCommand = "load"
    /\ Take /\ wphase' = "loading" /\ wfiles' = {}
    /\ \E e \in LoadingEvents :
         /\ e.data # Nothing /\ Val(e.data) # ""
         /\ OnMessageReceived(e)

WorkerInitiate ==
    /\ life = "mounted" /\ UNCHANGED lifeVars
    /\ wphase = "loading"
    /\ \E e \in InitiateEvents :
         /\ Val(e.file) \notin wfiles
         /\ wfiles' = wfiles \cup {Val(e.file)}
         /\ OnMessageReceived(e)
    /\ UNCHANGED <<wpos, wphase>>

WorkerProgress ==
    /\ life = "mounted" /\ UNCHANGED lifeVars
    /\ wphase = "loading"
    /\ \E e \in ProgressEvents :
         /\ Val(e.file) \in wfiles
         /\ OnMessageReceived(e)
    /\ UNCHANGED workerVars

WorkerDone ==
    /\ life = "mounted" /\ UNCHANGED lifeVars
    /\ wphase = "loading"
    /\ \E e \in DoneEvents :
         /\ Val(e.file) \in wfiles
         /\ wfiles' = wfiles \ {Val(e.file)}
         /\ OnMessageReceived(e)
    /\ UNCHANGED <<wpos, wphase>>

WorkerReady ==
    /\ life = "mounted" /\ UNCHANGED lifeVars
    /\ wphase = "loading" /\ wfiles = {}
    /\ wphase' = "idle" /\ UNCHANGED <<wpos, wfiles>>
    /\ \E e \in ReadyEvents : OnMessageReceived(e)

WorkerLoadError ==
    /\ life = "mounted" /\ UNCHANGED lifeVars
    /\ wphase = "loading"
    /\ wphase' = "idle" /\ wfiles' = {} /\ UNCHANGED wpos
    /\ \E e \in ErrorEvents : OnMessageReceived(e)

WorkerStart ==
    /\ life = "mounted" /\ UNCHANGED lifeVars
    /\ wphase = "idle" /\ NextCommand = "generate"
    /\ Take /\ wphase' = "generating" /\ UNCHANGED wfiles
    /\ \E e \in StartEvents : OnMessageReceived(e)

WorkerUpdate ==
    /\ life = "mounted" /\ UNCHANGED lifeVars
    /\ wphase = "generating"
    /\ UNCHANGED workerVars
    /\ \E e \in UpdateEvents : OnMessageReceived(e)

WorkerComplete ==
    /\ life = "mounted" /\ UNCHANGED lifeVars
    /\ wphase = "generating"
    /\ wphase' = "idle" /\ UNCHANGED <<wpos, wfiles>>
    /\ \E e \in CompleteEvents : OnMessageReceived(e)

\* interrupt and reset change nothing the component can see
WorkerTake ==
    /\ life = "mounted" /\ UNCHANGED lifeVars
    /\ NextCommand \in {"interrupt", "reset"}
    /\ Take /\ UNCHANGED <<wphase, wfiles>>
    /\ Silent

Worker ==
    \/ WorkerCheck
    \/ WorkerLoad
    \/ WorkerInitiate
    \/ WorkerProgress
    \/ WorkerDone
    \/ WorkerReady
    \/ WorkerLoadError
    \/ WorkerStart
    \/ WorkerUpdate
    \/ WorkerComplete
    \/ WorkerTake

(* The component with its worker; a newer worker may also send events the *)
(* component has no case for.                                             *)

\* the worker's "message" event is dispatched: the listener runs if it is
\* attached
Dispatch(e) ==
    IF listening THEN OnMessageReceived(e) ELSE UNCHANGED <<uiVars, sent>>

\* events the listener has no case for
AnyOther ==
    /\ life \in {"mounted", "unmounted"} /\ UNCHANGED lifeVars
    /\ \E e \in OtherEvents : Dispatch(e)
    /\ UNCHANGED workerVars

Next ==
    \/ MountEffect
    \/ StrictCleanup
    \/ UserAction
    \/ Worker
    \/ AnyOther

Spec == Init /\ [][Next]_vars

-----------------------------------------------------------------------------
(* The component in the load phase with a worker that sends the events of  *)
(* that phase in any order, any number of times, asked or not, also after  *)
(* the component is unmounted.                                             *)

AnyLoading ==
    /\ life \in {"mounted", "unmounted"} /\ UNCHANGED lifeVars
    /\ \E e \in LoadingEvents : Dispatch(e)
    /\ UNCHANGED workerVars

AnyInitiate ==
    /\ life \in {"mounted", "unmounted"} /\ UNCHANGED lifeVars
    /\ \E e \in InitiateEvents : Dispatch(e)
    /\ UNCHANGED workerVars

AnyProgress ==
    /\ life \in {"mounted", "unmounted"} /\ UNCHANGED lifeVars
    /\ \E e \in ProgressEvents : Dispatch(e)
    /\ UNCHANGED workerVars

AnyDone ==
    /\ life \in {"mounted", "unmounted"} /\ UNCHANGED lifeVars
    /\ \E e \in DoneEvents : Dispatch(e)
    /\ UNCHANGED workerVars

AnyReady ==
    /\ life \in {"mounted", "unmounted"} /\ UNCHANGED lifeVars
    /\ \E e \in ReadyEvents : Dispatch(e)
    /\ UNCHANGED workerVars

AnyError ==
    /\ life \in {"mounted", "unmounted"} /\ UNCHANGED lifeVars
    /\ \E e \in ErrorEvents : Dispatch(e)
    /\ UNCHANGED workerVars

NextLoad ==
    \/ MountEffect
    \/ StrictCleanup
    \/ Unmount
    \/ ClickLoad
    \/ AnyLoading
    \/ AnyInitiate
    \/ AnyProgress
    \/ AnyDone
    \/ AnyReady
    \/ AnyError
    \/ AnyOther

SpecLoad == Init /\ [][NextLoad]_vars

-----------------------------------------------------------------------------
(* The loading view with one download whose total runs over Sizes.         *)

FirstInitiate ==
    /\ life = "mounted" /\ UNCHANGED lifeVars
    /\ progressItems = <<>>
    /\ \E e \in InitiateEvents : OnMessageReceived(e)
    /\ UNCHANGED workerVars

AnySizedProgress ==
    /\ life = "mounted" /\ UNCHANGED lifeVars
    /\ \E e \in SizedProgressEvents : OnMessageReceived(e)
    /\ UNCHANGED workerVars

NextProgress ==
    \/ MountEffect
    \/ StrictCleanup
    \/ ClickLoad
    \/ FirstInitiate
    \/ AnySizedProgress

SpecProgress == Init /\ [][NextProgress]_vars

-----------------------------------------------------------------------------
(* The chat with a worker that sends start, update and complete in any     *)
(* order, any number of times, asked or not.                               *)

AnyStart ==
    /\ life = "mounted" /\ UNCHANGED lifeVars
    /\ Len(messages) < MaxChatTurns
    /\ \E e \in StartEvents : Dispatch(e)
    /\ UNCHANGED workerVars

\* the update events of this worker: with metrics, with no output or "Hi"
ChatUpdateEvents ==
    { e \in UpdateEvents : e.tps # Nothing /\ e.output # Just(" there") }

AnyUpdate ==
    /\ life = "mounted" /\ UNCHANGED lifeVars
    /\ \E e \in ChatUpdateEvents : Dispatch(e)
    /\ UNCHANGED workerVars

AnyComplete ==
    /\ life = "mounted" /\ UNCHANGED lifeVars
    /\ \E e \in CompleteEvents : Dispatch(e)
    /\ UNCHANGED workerVars

\* the typed text is submitted
ChatEnter ==
    /\ Len(messages) < MaxChatTurns
    /\ PressEnter

NextChat ==
    \/ MountEffect
    \/ StrictCleanup
    \/ AnyReady
    \/ \E text \in Inputs : TypeInput(text)
    \/ ChatEnter
    \/ AnyStart
    \/ AnyUpdate
    \/ AnyComplete

SpecChat == Init /\ [][NextChat]_vars

-----------------------------------------------------------------------------
(* Claims *)

\* number of commands of a type in a log of posted commands
CountType(log, type) == Cardinality({ i \in DOMAIN log : log[i].type = type })

(* C1: within a turn, the first update whose state is "answering" sets the *)
(* turn's answerIndex to the length the content had just before that       *)
(* update; an update with another state leaves it unset; once set, no      *)
(* step changes it for as long as the turn is in the transcript; and it is *)
(* set by no step other than an "answering" update of the last turn.       *)
C1_AnswerIndexFixedAtFirstAnswering ==
    [][ /\ \A i \in DOMAIN messages :
             (i <= Len(messages') /\ messages[i].answerIndex # Nothing)
                => messages'[i].answerIndex = messages[i].answerIndex
        /\ \A e \in UpdateEvents :
             (OnUpdate(e) /\ messages # <<>>
                          /\ Last(messages).answerIndex = Nothing)
                => Last(messages').answerIndex =
                     IF e.state = Just("answering")
                     THEN Just(Len(Last(messages).content))
                     ELSE Nothing
        /\ \A i \in DOMAIN messages :
             (i <= Len(messages') /\ messages[i].answerIndex = Nothing
                                  /\ messages'[i].answerIndex # Nothing)
                => /\ i = Len(messages)
                   /\ \E e \in UpdateEvents :
                        e.state = Just("answering") /\ OnUpdate(e)
      ]_vars

\* an assistant turn whose answerIndex was set at 2, after the rest of its
\* content, the complete event and a later user turn
C1_Witness ==
    /\ Len(messages) = 3
    /\ messages[2] = [role |-> "assistant", content |-> "Hi there",
                      answerIndex |-> Just(2)]
    /\ messages[3].role = "user"

(* C2: the phase only moves forward, unset -> loading -> ready: a step     *)
(* from ready leaves it ready, a step from loading never leaves it unset.  *)
C2_PhaseOnlyMovesForward ==
    [][ /\ status = Just("ready") => status' = Just("ready")
        /\ status = Just("loading") => status' # Nothing
      ]_vars

(* C3: the progress list never holds two items with the same file          *)
(* identifier.                                                             *)
C3_OneItemPerFile ==
    \A i, j \in DOMAIN progressItems :
        i # j => progressItems[i].file # progressItems[j].file

(* C4: a generate command is posted only by the step that appends a new    *)
(* user turn, one command for that turn: no later step (start, update,     *)
(* complete, a change of isRunning) posts a generate command again.        *)
C4_OneGeneratePerUserTurn ==
    [][ CountType(sent', "generate") # CountType(sent, "generate")
          => /\ CountType(sent', "generate") = CountType(sent, "generate") + 1
             /\ Len(messages') = Len(messages) + 1
             /\ Last(messages').role = "user"
             /\ SubSeq(messages', 1, Len(messages)) = messages
             /\ Last(sent').type = "generate"
      ]_vars

\* one generate command was posted; start, updates, complete and the change
\* of isRunning have followed it
C4_Witness ==
    /\ CountType(sent, "generate") = 1
    /\ Len(messages) = 2
    /\ messages[1].role = "user"
    /\ messages[2].role = "assistant" /\ messages[2].content = "Hi there"
    /\ ~isRunning

(* C5: while isRunning is true no step appends a user turn and no step     *)
(* posts a generate command.                                               *)
C5_NoSubmissionWhileRunning ==
    [][ isRunning
          => /\ UserCount(messages') = UserCount(messages)
             /\ Len(messages') >= Len(messages)
             /\ CountType(sent', "generate") = CountType(sent, "generate")
      ]_vars

\* a cycle is running, the textarea holds text: the Enter key and the send
\* arrow are what the guards keep from submitting it
C5_Witness ==
    /\ isRunning
    /\ status = Just("ready")
    /\ Len(input) > 0
    /\ Len(messages) = 2 /\ Last(messages).role = "assistant"

(* C6: the step that posts the reset command leaves the transcript empty   *)
(* and tps and numTokens cleared.                                          *)
C6_ResetClearsTranscriptAndMetrics ==
    [][ (Len(sent') = Len(sent) + 1 /\ Last(sent').type = "reset")
          => /\ messages' = <<>>
             /\ tps' = Nothing
             /\ numTokens' = Nothing
      ]_vars

(* C7: once error is set, every step leaves it set and no step posts a     *)
(* load command.                                                           *)
C7_ErrorBlocksLoadForGood ==
    [][ error # Nothing
          => /\ error' # Nothing
             /\ CountType(sent', "load") = CountType(sent, "load")
      ]_vars

\* the error is set (to the empty string, which the JSX does not display)
\* while the "Load model" button is still rendered
C7_Witness ==
    /\ isWebGPUAvailable
    /\ error = Just("")
    /\ status = Nothing
    /\ CountType(sent, "load") = 0

\* the two updates of the example of C8
HiThinking == [Ev("update") EXCEPT !.output = Just("Hi"),
                                   !.state = Just("thinking")]

ThereAnswering == [Ev("update") EXCEPT !.output = Just(" there"),
                                       !.state = Just("answering")]

(* C8: a start event appends an empty assistant turn; an update event      *)
(* appends its output to the content of the last turn, so that the content *)
(* is the concatenation of the outputs in arrival order; a complete event  *)
(* leaves the transcript as it is and isRunning false.  On the example:    *)
(* "Hi" (thinking) then " there" (answering) give "Hi there" with          *)
(* answerIndex 2.                                                          *)
C8_ContentIsConcatenationOfOutputs ==
    /\ ApplyUpdate(ApplyUpdate(<<AssistantTurn>>, HiThinking), ThereAnswering)
         = << [role |-> "assistant", content |-> "Hi there",
               answerIndex |-> Just(2)] >>
    /\ [][ /\ \A e \in StartEvents :
                OnStart(e) =>
                  /\ Len(messages') = Len(messages) + 1
                  /\ Last(messages').role = "assistant"
                  /\ Last(messages').content = ""
           /\ \A e \in UpdateEvents :
                (OnUpdate(e) /\ messages # <<>>) =>
                  /\ Len(messages') = Len(messages)
                  /\ Last(messages').content =
                        Last(messages).content \o Val(e.output)
           /\ \A e \in CompleteEvents :
                OnComplete(e) => (messages' = messages /\ ~isRunning')
         ]_vars

\* the example has run: after complete the turn reads "Hi there", split at 2
C8_Witness ==
    /\ messages # <<>>
    /\ Last(messages) = [role |-> "assistant", content |-> "Hi there",
                         answerIndex |-> Just(2)]
    /\ ~isRunning
    /\ wphase = "idle"

\* the file identifiers of a progress list, in order
FileList(items) == [ i \in DOMAIN items |-> items[i].file ]

(* C9: a progress event never adds or removes an item (the list keeps its  *)
(* file identifiers, in order), and one whose file matches no item leaves  *)
(* the list unchanged.                                                     *)
C9_ProgressForUnknownFileIsDropped ==
    [][ \A e \in ProgressEvents :
          OnProgress(e) =>
            /\ FileList(progressItems') = FileList(progressItems)
            /\ (\A i \in DOMAIN progressItems : progressItems[i].file # e.file)
                 => progressItems' = progressItems
      ]_vars

\* one file is in the list with progress reported, the other is not in it:
\* every progress event for the other one is dropped
C9_Witness ==
    /\ Len(progressItems) = 1
    /\ progressItems[1].file = Just("model.onnx")
    /\ progressItems[1].progress = Just(50)

\* a count of hundredths written with no more decimals than it needs
Stripped(h) ==
    LET whole == ToString(h \div 100)
        tenths == (h % 100) \div 10
        rest == h % 10
    IN  IF h % 100 = 0 THEN whole
        ELSE IF rest = 0 THEN whole \o "." \o ToString(tenths)
             ELSE whole \o "." \o ToString(tenths) \o ToString(rest)

\* formatBytes(n) is text: for the i with 1024^i <= n < 1024^(i+1) (0 for
\* n = 0), text is a count of hundredths nearest to n / 1024^i, stripped,
\* followed by the i-th unit
IsFormatOf(text, n) ==
    \E i \in 0 .. 2 :
        LET d == Pow(1024, i)
            q == n \div d
            r == n % d
        IN  /\ IF n = 0 THEN i = 0 ELSE q \in 1 .. 1023
            /\ \E f \in { (100 * r) \div d, (100 * r) \div d + 1 } :
                 /\ 2 * (100 * r - f * d) <= d
                 /\ 2 * (f * d - 100 * r) <= d
                 /\ text = Stripped(100 * q + f) \o Units[i + 1]

(* C10: formatBytes(n) is n / 1024^i rounded to 2 decimals, written        *)
(* without trailing zeros, followed by the i-th of B, kB, MB, GB, TB,      *)
(* i = floor(log1024(n)) and 0 for n = 0; formatBytes(0) = "0B",           *)
(* formatBytes(1024) = "1kB", formatBytes(1536) = "1.5kB"; and a bar whose *)
(* total is not a number shows no size.                                    *)
C10_FormatBytes ==
    /\ formatBytes(0) = "0B"
    /\ formatBytes(1024) = "1kB"
    /\ formatBytes(1536) = "1.5kB"
    /\ \A k \in DOMAIN progressItems :
         LET item == progressItems[k]
             head == Val(item.file) \o " ("
                       \o (IF item.progress = Nothing THEN "0.00%" ELSE "50.00%")
         IN  IF item.total = Nothing
             THEN ProgressBars[k] = head \o ")"
             ELSE \E text \in { formatBytes(Val(item.total)) } :
                    /\ IsFormatOf(text, Val(item.total))
                    /\ ProgressBars[k] = head \o " of " \o text \o ")"

\* the loading view shows a download of 1536 bytes
C10_Witness ==
    /\ isWebGPUAvailable
    /\ status = Just("loading")
    /\ Len(progressItems) = 1
    /\ progressItems[1].total = Just(1536)
    /\ ProgressBars[1] = "model.onnx (50.00% of 1.5kB)"

(* C11: an event whose status is absent, or is none of the nine the        *)
(* listener has a case for, is handled without failing and changes         *)
(* nothing: every state cell of the component keeps its value and no       *)
(* command is posted.                                                      *)
C11_UnknownStatusChangesNothing ==
    /\ [](listening => \A e \in OtherEvents : ENABLED OnMessageReceived(e))
    /\ [][ \A e \in OtherEvents :
              OnMessageReceived(e) => UNCHANGED <<uiVars, sent>>
         ]_vars

\* a cycle is running with every cell set: the state in which such an event
\* is handled is the state after it
C11_Witness ==
    /\ listening
    /\ status = Just("ready") /\ loadingMessage = "msg"
    /\ isRunning /\ Len(input) > 0
    /\ Len(messages) = 2 /\ Last(messages).content = "Hi"
    /\ tps = Just(5) /\ numTokens = Just(7)
    /\ ENABLED AnyOther

(* C12: the step that posts a generate command posts it with the whole     *)
(* transcript of that moment as its data, turn for turn (role, content,   *)
(* answerIndex), and the last turn of the data is a user turn; so every   *)
(* generate command posted so far holds a transcript that ends with a     *)
(* user turn.                                                              *)
C12_GeneratePayloadIsTranscript ==
    /\ [](\A i \in DOMAIN sent :
            sent[i].type = "generate"
              => /\ sent[i].data # <<>>
                 /\ Last(sent[i].data).role = "user")
    /\ [][ (Len(sent') = Len(sent) + 1 /\ Last(sent').type = "generate")
            => /\ Last(sent').data = messages'
               /\ \A k \in DOMAIN messages' :
                    /\ Last(sent').data[k].role = messages'[k].role
                    /\ Last(sent').data[k].content = messages'[k].content
                    /\ Last(sent').data[k].answerIndex = messages'[k].answerIndex
         ]_vars

\* the second generate command of a conversation: its data is the three
\* turns, the assistant's with its answerIndex
C12_Witness ==
    /\ sent # <<>>
    /\ Last(sent).type = "generate"
    /\ Last(sent).data = messages
    /\ Len(messages) = 3
    /\ messages[2] = [role |-> "assistant", content |-> "Hi there",
                      answerIndex |-> Just(2)]
    /\ messages[3] = UserTurn("hello")

(* C13: once the component is unmounted, whatever the phase was, its       *)
(* listeners are removed and no worker it created is still open, and no    *)
(* worker event changes a state cell or posts a command.                   *)
C13_UnmountReleasesWorker ==
    /\ [](life = "unmounted"
            => /\ ~listening
               /\ \A i \in DOMAIN workers : workers[i] # "open")
    /\ [][ life = "unmounted" => UNCHANGED <<uiVars, sent>> ]_vars

(* C14: the component creates one worker in its life, also when the effect *)
(* runs twice, and posts the check command once: nothing is posted before  *)
(* the effect has run, and from then on check is the first command posted  *)
(* and the only check.                                                     *)
C14_OneWorkerOneCheck ==
    /\ Len(workers) <= 1
    /\ life = "mounting" => (workers = <<>> /\ sent = <<>>)
    /\ life # "mounting"
         => /\ Len(workers) = 1
            /\ sent # <<>>
            /\ sent[1].type = "check"
            /\ CountType(sent, "check") = 1

\* the check command was followed by load, generate and interrupt
C14_Witness ==
    /\ life = "mounted"
    /\ Len(workers) = 1
    /\ Len(sent) = 4
    /\ sent[1].type = "check" /\ sent[2].type = "load"
    /\ sent[3].type = "generate" /\ sent[4].type = "interrupt"

C16_LoadOnce ==
    /\ [](CountType(sent, "load") <= 1)
    /\ [][ CountType(sent', "load") # CountType(sent, "load")
            => /\ status = Nothing
               /\ error = Nothing
               /\ status' = Just("loading")
               /\ Last(sent').type = "load"
         ]_vars

\* the load command was posted, the model became ready, events of the load
\* phase kept arriving: the button is gone for good
C16_Witness ==
    /\ CountType(sent, "load") = 1
    /\ status = Just("ready")
    /\ error = Nothing
    /\ Len(progressItems) = 2

(* C17: the step that posts an interrupt command starts from a state where *)
(* isRunning is true and changes no state cell; isRunning becomes false    *)
(* only by a complete event; and an update event handled after an          *)
(* interrupt was posted still appends its output to the last turn.         *)
C17_InterruptOnlyPosts ==
    [][ /\ (Len(sent') = Len(sent) + 1 /\ Last(sent').type = "interrupt")
            => (isRunning /\ UNCHANGED uiVars)
        /\ (isRunning /\ ~isRunning')
            => \E e \in CompleteEvents : OnComplete(e)
        /\ \A e \in UpdateEvents :
             (OnUpdate(e) /\ CountType(sent, "interrupt") > 0
                          /\ messages # <<>>)
                => /\ Len(messages') = Len(messages)
                   /\ Last(messages').content =
                        Last(messages).content \o OutputOf(e)
                   /\ isRunning' = isRunning
      ]_vars

\* an interrupt was posted in this cycle and the worker has taken it: the
\* cycle is still running, with the outputs in the turn
C17_Witness ==
    /\ Len(sent) = 4 /\ sent[4].type = "interrupt"
    /\ wpos = 4 /\ wphase = "generating"
    /\ isRunning
    /\ Len(messages) = 2
    /\ Last(messages).content = "Hi there"

(* C18: with the events of several downloads in any order, a progress      *)
(* event for a file sets progress and total of the items of that file and  *)
(* leaves every other item, and the order of the list, as they were; a     *)
(* done event for a file removes the items of that file and leaves the     *)
(* others as they were, in their order.                                    *)
C18_EventsCorrelateByFile ==
    [][ /\ \A e \in ProgressEvents :
             OnProgress(e) =>
               /\ Len(progressItems') = Len(progressItems)
               /\ \A i \in DOMAIN progressItems :
                    IF progressItems[i].file = e.file
                    THEN /\ progressItems'[i].progress = e.progress
                         /\ progressItems'[i].total = e.total
                         /\ progressItems'[i].file = e.file
                    ELSE progressItems'[i] = progressItems[i]
        /\ \A e \in DoneEvents :
             OnDone(e) =>
               progressItems' =
                 SelectSeq(progressItems, LAMBDA item : item.file # e.file)
      ]_vars

\* two downloads in flight: progress was reported for the first, the second
\* is as its initiate event left it
C18_Witness ==
    /\ Len(progressItems) = 2
    /\ progressItems[1].file = Just("model.onnx")
    /\ progressItems[1].progress = Just(50)
    /\ progressItems[1].total = Just(1536)
    /\ progressItems[2] = [Ev("initiate") EXCEPT !.file = Just("tokenizer.json")]

(* C19: an assistant turn whose answerIndex is set, to any value from 0 to *)
(* the length of its content, is shown with its first answerIndex          *)
(* characters as the reasoning and the rest as the answer; a turn whose    *)
(* answerIndex is absent is shown with all of its content as reasoning.    *)
C19_SplitAtAnswerIndex ==
    \A i \in DOMAIN messages :
        messages[i].role = "assistant" =>
            LET turn == messages[i]
            IN  IF turn.answerIndex # Nothing
                THEN /\ thinking(turn) \o answer(turn) = turn.content
                     /\ Len(thinking(turn)) = Val(turn.answerIndex)
                ELSE /\ thinking(turn) = turn.content
                     /\ answer(turn) = ""

(* C20: an error event with a message, handled in any phase of a component *)
(* that shows its UI, stores the message in error, leaves the transcript   *)
(* as it is, and the message is on display after it.                       *)
C20_ErrorIsSurfaced ==
    [][ \A e \in ErrorEvents :
          (OnError(e) /\ isWebGPUAvailable
                      /\ e.data # Nothing /\ e.data # Just(""))
            => /\ error' = e.data
               /\ messages' = messages
               /\ ErrorShown'
      ]_vars

(* C21: whatever the order of the events, an update event keeps the number *)
(* of turns (none on an empty transcript), every turn but the last, and    *)
(* the role of the last; a start event appends one empty assistant turn    *)
(* without answerIndex after the turns there were; a complete event leaves *)
(* the transcript as it was and changes isRunning alone (it is followed by *)
(* the generate trigger only where that is due: not after a start).        *)
C21_TranscriptMutationsAreLocal ==
    [][ /\ \A e \in UpdateEvents :
             OnUpdate(e) =>
               /\ Len(messages') = Len(messages)
               /\ \A i \in DOMAIN messages :
                    i < Len(messages) => messages'[i] = messages[i]
               /\ messages # <<>> => Last(messages').role = Last(messages).role
        /\ \A e \in StartEvents :
             OnStart(e) =>
               /\ Len(messages') = Len(messages) + 1
               /\ SubSeq(messages', 1, Len(messages)) = messages
               /\ Last(messages') = [role |-> "assistant", content |-> "",
                                     answerIndex |-> Nothing]
        /\ \A e \in CompleteEvents :
             OnComplete(e) =>
               /\ messages' = messages
               /\ ~isRunning'
               /\ UNCHANGED <<isWebGPUAvailable, status, error, loadingMessage,
                              progressItems, input, numTokens>>
               /\ ~GenerateDue(messages) => UNCHANGED <<tps, sent>>
      ]_vars

\* the user's turn is as it was submitted, the last turn holds the outputs
\* of two updates, complete has arrived
C21_Witness ==
    /\ Len(messages) = 2
    /\ messages[1] = UserTurn("hello")
    /\ messages[2] = [role |-> "assistant", content |-> "HiHi",
                      answerIndex |-> Just(2)]
    /\ ~isRunning

(* C22: the answerIndex of every turn is absent or lies between 0 and the  *)
(* length of the turn's content; an update event leaves the content the    *)
(* last turn had as a prefix of the content it has afterwards, the same    *)
(* content if its output is empty; and tps and numTokens are those of the  *)
(* event after any update, also one with an empty output.                  *)
C22_AnswerIndexInBoundsAppendOnly ==
    /\ [](\A i \in DOMAIN messages :
            \/ messages[i].answerIndex = Nothing
            \/ /\ 0 <= Val(messages[i].answerIndex)
               /\ Val(messages[i].answerIndex) <= Len(messages[i].content))
    /\ [][ \A e \in UpdateEvents :
              OnUpdate(e) =>
                /\ tps' = e.tps
                /\ numTokens' = e.numTokens
                /\ messages # <<>> =>
                     LET before == Last(messages).content
                         after == Last(messages').content
                     IN  /\ Len(after) >= Len(before)
                         /\ \/ before = ""
                            \/ SubSeq(after, 1, Len(before)) = before
                         /\ OutputOf(e) = "" => after = before
         ]_vars

\* answerIndex is the length of the content: the answering update came
\* after "Hi" with an empty output, and the metrics are those of an update
C22_Witness ==
    /\ messages # <<>>
    /\ Last(messages) = [role |-> "assistant", content |-> "Hi",
                         answerIndex |-> Just(2)]
    /\ tps = Just(5) /\ numTokens = Just(7)

\* the texts a user can submit
Submittable == { EXAMPLES[i] : i \in DOMAIN EXAMPLES } \cup (Inputs \ {""})

(* C23: with the worker sending start, update*, complete for each generate *)
(* command, and the user submitting, interrupting and resetting as the UI  *)
(* allows, no step changes a user turn that stays in the transcript: every *)
(* user turn has the content it was submitted with and no answerIndex, and *)
(* a step sets answerIndex on an assistant turn only.                      *)
C23_UserTurnsNeverModified ==
    /\ [](\A i \in DOMAIN messages :
            messages[i].role = "user"
              => /\ messages[i].content \in Submittable
                 /\ messages[i].answerIndex = Nothing)
    /\ [][ \A i \in DOMAIN messages :
              /\ (i <= Len(messages') /\ messages[i].role = "user")
                    => messages'[i] = messages[i]
              /\ (i <= Len(messages') /\ messages'[i] # messages[i])
                    => (messages[i].role = "assistant" /\ i = Len(messages))
         ]_vars

\* a second question was typed after the answer to an example prompt; the
\* answer began with its first output
C23_Witness ==
    /\ Len(messages) = 3
    /\ messages[1] = UserTurn(EXAMPLES[3])
    /\ messages[2] = [role |-> "assistant", content |-> " thereHi",
                      answerIndex |-> Just(0)]
    /\ messages[3] = UserTurn("hello")
    /\ isRunning

=============================================================================
